---- MODULE Spec2Model ----
(***************************************************************************)
(* Model of the modelz loader: the format dispatcher of src/lib.rs and the *)
(* four adapters gltf.rs, obj.rs, ply.rs and stl.rs.  One load call is a   *)
(* run of the state machine: a call action draws the path (and, for        *)
(* from_format, the format tag), the adapter's first step draws what the   *)
(* external parser yields for the file, and the following steps are the    *)
(* adapter's loops.  A call ends with result.kind "Ok" (a Model3D), "Err"  *)
(* (a ModelError value) or "Abort" (a panic: unwrap, expect, panic! or an  *)
(* out-of-range slice index).  f32 values are modelled by integers.        *)
(* All four cargo features are taken to be enabled.                        *)
(***************************************************************************)
EXTENDS Integers, Sequences, FiniteSets, TLC

VARIABLES
    pc,          \* position of the load call
    entry,       \* "load" or "from_format": the public entry point called
    path,        \* the path argument, with what the file system says of it
    format,      \* the ModelFormat handed to from_format
    invoked,     \* the adapters entered so far, each with its path argument
    source,      \* what the external parser of the adapter yielded
    vertex_list, \* ply.rs: the vertex payload read so far
    face_list,   \* ply.rs: the face payload read so far
    materials,   \* materials / final_materials under construction
    meshes,      \* meshes under construction
    vertices,    \* ply.rs, stl.rs: the flat vertex stream under construction
    iter,        \* number of items the current loop has consumed
    result       \* outcome of the call

vars == <<pc, entry, path, format, invoked, source, vertex_list, face_list,
          materials, meshes, vertices, iter, result>>

----------------------------------------------------------------------------
(* Bounds of the model *)

MaxTriangles == 2
MaxPlyVertices == 2
MaxPlyFaces == 2
MaxVertices == 2
MaxMeshes == 1
MaxMaterials == 2

----------------------------------------------------------------------------
(* Option<T>, Result<T, ModelError> and panics *)

None == <<>>
Some(v) == <<v>>
IsSome(o) == o # <<>>
Unwrap(o) == o[1]

Pending == [kind |-> "Pending"]
Ok(m) == [kind |-> "Ok", model |-> m]
Err(e) == [kind |-> "Err", error |-> e]
Abort(at) == [kind |-> "Abort", at |-> at]

ModelError == {"UnknowFormat", "FileNotExists", "OpenFile", "ModelParsing", "MaterialLoad"}

ModelFormat == {"OBJ", "GLTF", "STL", "PLY"}

SeqsUpTo(S, n) == UNION {[1..k -> S] : k \in 0..n}

----------------------------------------------------------------------------
(* Paths.  exists is what Path::exists answers; openable is whether         *)
(* File::open succeeds (a directory or an unreadable file exists and does   *)
(* not open).  extension is Path::extension, None when the name has none.   *)

Extensions == {None, Some("obj"), Some("gltf"), Some("glb"), Some("stl"),
               Some("ply"), Some("xyz"), Some("OBJ")}

Paths == {p \in [parent : {"assets"}, stem : {"cube"}, extension : Extensions,
                 exists : BOOLEAN, openable : BOOLEAN] :
              p.openable => p.exists}

NoPath == [parent |-> "", stem |-> "", extension |-> None, exists |-> FALSE,
           openable |-> FALSE]

\* Path::join of a directory and a relative name.
Join(dir, name) == <<dir, name>>

get_format(p) ==
    IF ~p.exists THEN Err("FileNotExists")
    ELSE IF ~IsSome(p.extension) THEN Abort("get_format: expect")
    ELSE LET extension == Unwrap(p.extension) IN
         CASE extension = "obj" -> Ok("OBJ")
           [] extension \in {"gltf", "glb"} -> Ok("GLTF")
           [] extension = "stl" -> Ok("STL")
           [] OTHER -> Err("UnknowFormat")

\* The extensions from_format is called with here: none, as in the doc
\* example from_format("model", ..), or one the spec registers for the tag.
ExtensionsOf(f) ==
    CASE f = "OBJ" -> {None, Some("obj")}
      [] f = "GLTF" -> {None, Some("glb")}
      [] f = "STL" -> {None, Some("stl")}
      [] f = "PLY" -> {None, Some("ply")}

AdapterOf(f) ==
    CASE f = "OBJ" -> "obj"
      [] f = "GLTF" -> "gltf"
      [] f = "STL" -> "stl"
      [] f = "PLY" -> "ply"

\* Model3D::from_format: the match on the format tag enters the adapter.
Dispatch(p, f) ==
    /\ format' = f
    /\ invoked' = Append(invoked, [adapter |-> AdapterOf(f), path |-> p])
    /\ pc' = AdapterOf(f)
    /\ result' = Pending

Finish(r) ==
    /\ pc' = "done"
    /\ result' = r

Load(p) ==
    /\ pc = "idle"
    /\ entry' = "load"
    /\ path' = p
    /\ LET r == get_format(p) IN
         IF r.kind = "Ok"
         THEN Dispatch(p, r.model)
         ELSE Finish(r) /\ UNCHANGED <<format, invoked>>
    /\ UNCHANGED <<source, vertex_list, face_list, materials, meshes, vertices, iter>>

FromFormat(p, f) ==
    /\ pc = "idle"
    /\ p.extension \in ExtensionsOf(f)
    /\ entry' = "from_format"
    /\ path' = p
    /\ Dispatch(p, f)
    /\ UNCHANGED <<source, vertex_list, face_list, materials, meshes, vertices, iter>>

----------------------------------------------------------------------------
(* stl.rs *)

Points == {<<0, 0, 0>>, <<1, 2, 3>>}
Normals == {<<0, 0, 1>>, <<4, 5, 6>>}

\* A triangle record of the file: one normal and three positions.
StlTriangles == [normal : Normals, vertices : [1..3 -> Points]]

StlFiles == SeqsUpTo(StlTriangles, MaxTriangles)

IndexOf(s, x) == CHOOSE i \in 1..Len(s) : s[i] = x

RECURSIVE IndexTriangles(_, _, _)
\* stl_io builds an IndexedMesh: equal positions share one entry of
\* vertices, and each face names its three entries by 0-based index.
IndexTriangles(tris, verts, faces) ==
    IF tris = <<>> THEN [vertices |-> verts, faces |-> faces]
    ELSE LET t == Head(tris)
             v1 == IF \E i \in 1..Len(verts) : verts[i] = t.vertices[1]
                   THEN verts ELSE Append(verts, t.vertices[1])
             v2 == IF \E i \in 1..Len(v1) : v1[i] = t.vertices[2]
                   THEN v1 ELSE Append(v1, t.vertices[2])
             v3 == IF \E i \in 1..Len(v2) : v2[i] = t.vertices[3]
                   THEN v2 ELSE Append(v2, t.vertices[3])
             f == [normal |-> t.normal,
                   vertices |-> [k \in 1..3 |-> IndexOf(v3, t.vertices[k]) - 1]]
         IN IndexTriangles(Tail(tris), v3, Append(faces, f))

read_stl(tris) == IndexTriangles(tris, <<>>, <<>>)

\* stl.rs:6.  File::open(path).unwrap() and read_stl(..).unwrap().
StlRead ==
    /\ pc = "stl"
    /\ \/ /\ ~path.openable
          /\ Finish(Abort("stl: File::open unwrap"))
          /\ UNCHANGED <<source, vertices, iter>>
       \/ /\ path.openable
          /\ Finish(Abort("stl: read_stl unwrap"))
          /\ UNCHANGED <<source, vertices, iter>>
       \/ /\ path.openable
          /\ \E tris \in StlFiles :
                source' = [triangles |-> tris, stl |-> read_stl(tris)]
          /\ vertices' = <<>>
          /\ iter' = 0
          /\ pc' = "stl_faces"
          /\ UNCHANGED result
    /\ UNCHANGED <<entry, path, format, invoked, vertex_list, face_list, materials, meshes>>

StlFaceVertices_SamePos(stl, face) ==
    LET normal == <<face.normal[1], face.normal[2], face.normal[3]>>
        pos1 == stl.vertices[face.vertices[1] + 1]
        pos3 == stl.vertices[face.vertices[3] + 1]
        v1 == [position |-> <<pos1[1], pos1[2], pos1[3]>>,
               tex_coord |-> None, normal |-> Some(normal)]
        v3 == [position |-> <<pos3[1], pos3[2], pos3[3]>>,
               tex_coord |-> None, normal |-> Some(normal)]
    IN <<v1, v1, v3>>

\* stl.rs:10-30, the three vertices of one face.
StlFaceVertices(stl, face) ==
    LET normal == <<face.normal[1], face.normal[2], face.normal[3]>>
        pos1 == stl.vertices[face.vertices[1] + 1]
        pos2 == stl.vertices[face.vertices[2] + 1]
        pos3 == stl.vertices[face.vertices[3] + 1]
        v1 == [position |-> <<pos1[1], pos1[2], pos1[3]>>,
               tex_coord |-> None, normal |-> Some(normal)]
        v2 == [position |-> <<pos2[1], pos2[2], pos2[3]>>,
               tex_coord |-> None, normal |-> Some(normal)]
        v3 == [position |-> <<pos3[1], pos3[2], pos3[3]>>,
               tex_coord |-> None, normal |-> Some(normal)]
    IN <<v1, v2, v3>>

\* stl.rs:9-35, one iteration of `for face in stl.faces`.
StlFace ==
    /\ pc = "stl_faces"
    /\ iter < Len(source.stl.faces)
    /\ vertices' = vertices \o StlFaceVertices(source.stl, source.stl.faces[iter + 1])
    /\ iter' = iter + 1
    /\ UNCHANGED <<pc, entry, path, format, invoked, source, vertex_list, face_list,
                   materials, meshes, result>>

\* stl.rs:36-47.
StlReturn ==
    /\ pc = "stl_faces"
    /\ iter = Len(source.stl.faces)
    /\ LET mesh == [vertices |-> vertices, indices |-> None,
                    material_index |-> None, name |-> None]
       IN /\ meshes' = <<mesh>>
          /\ materials' = <<>>
          /\ Finish(Ok([meshes |-> <<mesh>>, materials |-> <<>>, format |-> "STL"]))
    /\ UNCHANGED <<entry, path, format, invoked, source, vertex_list, face_list,
                   vertices, iter>>

----------------------------------------------------------------------------
(* ply.rs *)

\* A property of the header's vertex element: its name and its scalar type.
\* Every row of the vertex payload carries one value per declared property.
Float(k) == [key |-> k, ty |-> "Float"]
Double(k) == [key |-> k, ty |-> "Double"]

PlyVertexProperties ==
    { <<Float("x"), Float("y"), Float("z")>>,
      <<Float("x"), Float("y"), Float("z"), Float("nx"), Float("ny"), Float("nz")>>,
      <<Float("x"), Float("y"), Float("z"), Float("nx"), Float("nz")>>,
      <<Float("x"), Float("y"), Float("z"), Float("nx"), Float("ny")>>,
      <<Float("x"), Float("y"), Float("z"), Float("ny"), Float("nz")>>,
      <<Float("x"), Float("y"), Float("z"), Float("s"), Float("t")>>,
      <<Float("x"), Float("y"), Float("z"), Float("u")>>,
      <<Float("x"), Float("y"), Float("z"), Float("nx"), Float("ny"), Float("nz"),
        Float("u"), Float("v"), Float("red")>>,
      <<Float("x"), Float("y"), Float("z"), Double("nx"), Double("ny"), Double("nz")>> }

\* The value row i carries in column c: distinct over rows and columns.
PlyRow(props, i) ==
    [c \in 1..Len(props) |->
        [key |-> props[c].key, ty |-> props[c].ty, value |-> 10 * i + c]]

PlyRows(props, n) == [i \in 1..n |-> PlyRow(props, i)]

\* The faces drawn for a vertex list of n entries (0-based indices): the
\* rotations of a triangle, one quad, one face of two indices and one face
\* that names the entry past the end.
PlyFaces(n) ==
    (IF n = 0 THEN {}
     ELSE {[vertex_index |-> <<a, (a + 1) % n, (a + 2) % n>>] : a \in 0..(n - 1)}
          \cup {[vertex_index |-> <<n - 1, 0, (n - 1) \div 2, 0>>]})
    \cup {[vertex_index |-> <<0, 0>>], [vertex_index |-> <<0, 0, n>>]}

PlyFile(elements, props, n, faces, broken) ==
    [elements |-> elements, rows |-> PlyRows(props, n), faces |-> faces,
     broken |-> broken]

PlyFiles ==
    {PlyFile(<<"vertex", "face">>, props, n, faces, "none") :
        props \in PlyVertexProperties,
        n \in 0..MaxPlyVertices,
        faces \in UNION {SeqsUpTo(PlyFaces(k), MaxPlyFaces) : k \in 0..MaxPlyVertices}}
    \cup {PlyFile(<<"face", "vertex">>, props, 1, <<[vertex_index |-> <<0, 0, 0>>]>>, "none") :
            props \in PlyVertexProperties}
    \cup {PlyFile(<<"vertex">>, props, 1, <<>>, "none") : props \in PlyVertexProperties}
    \cup {PlyFile(<<"vertex", "face", "edge">>, <<Float("x"), Float("y"), Float("z")>>,
                  1, <<[vertex_index |-> <<0, 0, 0>>]>>, "none")}
    \cup {PlyFile(<<"vertex", "face">>, <<Float("x"), Float("y"), Float("z")>>,
                  1, <<[vertex_index |-> <<0, 0, 0>>]>>, b) : b \in {"vertex", "face"}}

\* ply.rs:24-28, Vertex::new.
PlyVertexNew ==
    [x |-> 0, y |-> 0, z |-> 0, x_norm |-> None, y_norm |-> None, z_norm |-> None,
     tex_x |-> None, tex_y |-> None]

\* ply.rs:29-43, Vertex::set_property.
PlyVertexSetProperty(self, p) ==
    IF p.ty # "Float" THEN self
    ELSE CASE p.key = "x" -> [self EXCEPT !.x = p.value]
           [] p.key = "y" -> [self EXCEPT !.y = p.value]
           [] p.key = "z" -> [self EXCEPT !.z = p.value]
           [] p.key = "nx" -> [self EXCEPT !.x_norm = Some(p.value)]
           [] p.key = "ny" -> [self EXCEPT !.y_norm = Some(p.value)]
           [] p.key = "nz" -> [self EXCEPT !.z_norm = Some(p.value)]
           [] p.key \in {"u", "s", "tx", "texture_u"} -> [self EXCEPT !.tex_x = Some(p.value)]
           [] p.key \in {"v", "t", "ty", "texture_v"} -> [self EXCEPT !.tex_y = Some(p.value)]
           [] OTHER -> self

RECURSIVE PlyReadVertex(_, _)
\* The parser's row loop: Vertex::new, then set_property per column.
PlyReadVertex(self, row) ==
    IF row = <<>> THEN self
    ELSE PlyReadVertex(PlyVertexSetProperty(self, Head(row)), Tail(row))

PlyReadVertexPayload(rows) == [i \in 1..Len(rows) |-> PlyReadVertex(PlyVertexNew, rows[i])]

\* ply.rs:66-76: File::open, then read_header(..).unwrap().
PlyOpen ==
    /\ pc = "ply"
    /\ \/ /\ ~path.openable
          /\ Finish(Err("OpenFile"))
          /\ UNCHANGED <<source, vertex_list, face_list, iter>>
       \/ /\ path.openable
          /\ Finish(Abort("ply: read_header unwrap"))
          /\ UNCHANGED <<source, vertex_list, face_list, iter>>
       \/ /\ path.openable
          /\ \E file \in PlyFiles : source' = file
          /\ vertex_list' = <<>>
          /\ face_list' = <<>>
          /\ iter' = 0
          /\ pc' = "ply_elements"
          /\ UNCHANGED result
    /\ UNCHANGED <<entry, path, format, invoked, materials, meshes, vertices>>

\* ply.rs:81-96, one iteration of `for (_, element) in &header.elements`.
PlyReadElement ==
    /\ pc = "ply_elements"
    /\ iter < Len(source.elements)
    /\ LET name == source.elements[iter + 1] IN
         CASE name = "vertex" ->
                IF source.broken = "vertex"
                THEN Finish(Abort("ply: read_payload_for_element unwrap"))
                     /\ UNCHANGED <<vertex_list, face_list, iter>>
                ELSE /\ vertex_list' = PlyReadVertexPayload(source.rows)
                     /\ iter' = iter + 1
                     /\ UNCHANGED <<pc, result, face_list>>
           [] name = "face" ->
                IF source.broken = "face"
                THEN Finish(Abort("ply: read_payload_for_element unwrap"))
                     /\ UNCHANGED <<vertex_list, face_list, iter>>
                ELSE /\ face_list' = source.faces
                     /\ iter' = iter + 1
                     /\ UNCHANGED <<pc, result, vertex_list>>
           [] OTHER ->
                Finish(Abort("ply: panic Enexpeced element"))
                /\ UNCHANGED <<vertex_list, face_list, iter>>
    /\ UNCHANGED <<entry, path, format, invoked, source, materials, meshes, vertices>>

\* ply.rs:97, the element loop is over.
PlyElementsRead ==
    /\ pc = "ply_elements"
    /\ iter = Len(source.elements)
    /\ pc' = "ply_faces"
    /\ iter' = 0
    /\ vertices' = <<>>
    /\ UNCHANGED <<entry, path, format, invoked, source, vertex_list, face_list,
                   materials, meshes, result>>

\* ply.rs:106-112 (125-131, 143-149): the nested if-let over x_norm, z_norm
\* and z_norm again; `normal` keeps its earlier value when one is None.
PlyNormal(vertex, normal) ==
    IF IsSome(vertex.x_norm) /\ IsSome(vertex.z_norm)
    THEN Some(<<Unwrap(vertex.x_norm), Unwrap(vertex.z_norm), Unwrap(vertex.z_norm)>>)
    ELSE normal

\* ply.rs:113-117 (132-136, 150-154).
PlyTexCoord(vertex, tex_coord) ==
    IF IsSome(vertex.tex_x) /\ IsSome(vertex.tex_y)
    THEN Some(<<Unwrap(vertex.tex_x), Unwrap(vertex.tex_y)>>)
    ELSE tex_coord

PlyFaceVertices_FirstTwice(vl, face) ==
    LET vertex == vl[face.vertex_index[1] + 1]
        vertex2 == vl[face.vertex_index[3] + 1]
        v1 == [position |-> <<vertex.x, vertex.y, vertex.z>>,
               tex_coord |-> PlyTexCoord(vertex, None), color |-> None,
               normal |-> PlyNormal(vertex, None)]
        v3 == [position |-> <<vertex2.x, vertex2.y, vertex2.z>>,
               tex_coord |-> PlyTexCoord(vertex2, v1.tex_coord), color |-> None,
               normal |-> PlyNormal(vertex2, v1.normal)]
    IN <<v1, v1, v3>>

\* ply.rs:100-160, the three vertices of one face.  normal and tex_coord
\* are declared once per face and carried from one vertex to the next.
PlyFaceVertices(vl, face) ==
    LET vertex == vl[face.vertex_index[1] + 1]
        vertex1 == vl[face.vertex_index[2] + 1]
        vertex2 == vl[face.vertex_index[3] + 1]
        normal_1 == PlyNormal(vertex, None)
        tex_coord_1 == PlyTexCoord(vertex, None)
        v1 == [position |-> <<vertex.x, vertex.y, vertex.z>>,
               tex_coord |-> tex_coord_1, color |-> None, normal |-> normal_1]
        normal_2 == PlyNormal(vertex1, normal_1)
        tex_coord_2 == PlyTexCoord(vertex1, tex_coord_1)
        v2 == [position |-> <<vertex1.x, vertex1.y, vertex1.z>>,
               tex_coord |-> tex_coord_2, color |-> None, normal |-> normal_2]
        normal_3 == PlyNormal(vertex2, normal_2)
        tex_coord_3 == PlyTexCoord(vertex2, tex_coord_2)
        v3 == [position |-> <<vertex2.x, vertex2.y, vertex2.z>>,
               tex_coord |-> tex_coord_3, color |-> None, normal |-> normal_3]
    IN <<v1, v2, v3>>

\* The slice indexing of ply.rs:100-102 stays within bounds.
PlyFaceInBounds(vl, face) ==
    /\ Len(face.vertex_index) >= 3
    /\ \A j \in 1..3 : face.vertex_index[j] < Len(vl)

\* ply.rs:98-165, one iteration of `for face in face_list`.
PlyFace ==
    /\ pc = "ply_faces"
    /\ iter < Len(face_list)
    /\ LET face == face_list[iter + 1] IN
         IF PlyFaceInBounds(vertex_list, face)
         THEN /\ vertices' = vertices \o PlyFaceVertices(vertex_list, face)
              /\ iter' = iter + 1
              /\ UNCHANGED <<pc, result>>
         ELSE /\ Finish(Abort("ply: index out of bounds"))
              /\ UNCHANGED <<vertices, iter>>
    /\ UNCHANGED <<entry, path, format, invoked, source, vertex_list, face_list,
                   materials, meshes>>

\* ply.rs:166-178.
PlyReturn ==
    /\ pc = "ply_faces"
    /\ iter = Len(face_list)
    /\ LET mesh == [vertices |-> vertices, indices |-> None, material_index |-> None,
                    mode |-> "TriangleFan", name |-> None]
       IN /\ meshes' = <<mesh>>
          /\ materials' = <<>>
          /\ Finish(Ok([meshes |-> <<mesh>>, materials |-> <<>>, format |-> "PLY"]))
    /\ UNCHANGED <<entry, path, format, invoked, source, vertex_list, face_list,
                   vertices, iter>>

----------------------------------------------------------------------------
(* gltf.rs *)

\* Element i of an attribute stream: dim components, distinct over streams,
\* elements and components.
Element(base, i, dim) == [c \in 1..dim |-> base + 10 * i + c]
Stream(base, n, dim) == [i \in 1..n |-> Element(base, i, dim)]

\* The material i of a document (0-based index i - 1).
GltfSourceMaterial(i) ==
    [name |-> IF i = 1 THEN None ELSE Some(<<"material", i>>),
     alpha_mode |-> IF i % 3 = 1 THEN "Mask" ELSE IF i % 3 = 2 THEN "Blend" ELSE "Opaque",
     alpha_cutoff |-> IF i % 3 = 1 THEN Some(5) ELSE None,
     double_sided |-> (i % 2 = 0),
     base_color_factor |-> Element(500, i, 4),
     base_color_texture |->
        IF i % 3 = 1
        THEN Some([name |-> Some(<<"texture", i>>),
                   source |-> [kind |-> "View", buffer |-> 0, offset |-> 1, length |-> 2,
                               mime_type |-> "image/png"],
                   sampler |-> [mag_filter |-> Some("Linear"),
                                min_filter |-> Some("LinearMipmapLinear"),
                                wrap_s |-> "ClampToEdge", wrap_t |-> "MirroredRepeat",
                                name |-> None]])
        ELSE IF i % 3 = 2
        THEN Some([name |-> None,
                   source |-> [kind |-> "Uri", uri |-> <<"image", i>>, mime_type |-> None],
                   sampler |-> [mag_filter |-> None, min_filter |-> None,
                                wrap_s |-> "Repeat", wrap_t |-> "Repeat",
                                name |-> Some("sampler")]])
        ELSE None]

GltfPrimitive(n, normals, colors, tex_coords, indices, material) ==
    [positions |-> Some(Stream(100, n, 3)),
     normals |-> IF normals = None THEN None ELSE Some(Stream(200, Unwrap(normals), 3)),
     colors |-> IF colors = None THEN None ELSE Some(Stream(300, Unwrap(colors), 4)),
     tex_coords |-> IF tex_coords = None THEN None
                    ELSE Some(Stream(400, Unwrap(tex_coords), 2)),
     indices |-> indices,
     material |-> material,
     mode |-> IF indices = None THEN "Triangles" ELSE "TriangleStrip"]

Widths == {"U8", "U16", "U32"}

\* The primitives drawn for a document of nm materials.  For n positions:
\* no attribute; every attribute with n elements; one attribute with n - 1,
\* n or n + 1 elements; an index buffer of each width, within the vertices
\* or naming the vertex past the end; a reference to each material.  And a
\* primitive without positions.
GltfPrimitives(nm) ==
    UNION {
        {GltfPrimitive(n, None, None, None, None, None),
         GltfPrimitive(n, Some(n), Some(n), Some(n), None, None)}
        \cup {GltfPrimitive(n, Some(k), None, None, None, None) : k \in {n - 1, n, n + 1}}
        \cup {GltfPrimitive(n, None, Some(k), None, None, None) : k \in {n - 1, n, n + 1}}
        \cup {GltfPrimitive(n, None, None, Some(k), None, None) : k \in {n - 1, n, n + 1}}
        \cup {GltfPrimitive(n, None, None, None,
                            Some([width |-> w, values |-> [j \in 1..n |-> n - j]]), None) :
                 w \in Widths}
        \cup {GltfPrimitive(n, None, None, None,
                            Some([width |-> w, values |-> <<0, n>>]), None) : w \in Widths}
        \cup {GltfPrimitive(n, Some(n), None, None, None, Some(i)) : i \in 0..(nm - 1)}
        : n \in 1..MaxVertices}
    \cup {GltfPrimitive(0, None, None, None, None, None),
          [GltfPrimitive(1, None, None, None, None, None) EXCEPT !.positions = None]}

\* A document: nm materials, and meshes of one primitive each but for the
\* first mesh kind, which has two.
GltfMeshes(nm) ==
    {[name |-> Some("mesh"), primitives |-> <<p>>] : p \in GltfPrimitives(nm)}
    \cup {[name |-> None,
           primitives |-> <<GltfPrimitive(1, Some(1), None, None, None, None),
                            GltfPrimitive(1, None, None, Some(1), None, None)>>]}

GltfFiles ==
    UNION {[materials : {[i \in 1..nm |-> GltfSourceMaterial(i)]},
            meshes : SeqsUpTo(GltfMeshes(nm), MaxMeshes),
            buffers : {<<<<7, 8, 9>>>>}] : nm \in 0..MaxMaterials}

\* gltf.rs:130-136.
convert_alpha_mode(mode) ==
    CASE mode = "Opaque" -> "Opaque"
      [] mode = "Mask" -> "Mask"
      [] mode = "Blend" -> "Blend"

\* gltf.rs:139-145.
convert_wrapping_mode(mode) ==
    CASE mode = "ClampToEdge" -> "ClampToEdge"
      [] mode = "MirroredRepeat" -> "MirroredRepeat"
      [] mode = "Repeat" -> "Repeat"

\* gltf.rs:148-158.
convert_mode(mode) ==
    CASE mode = "Points" -> "Points"
      [] mode = "Lines" -> "Lines"
      [] mode = "LineLoop" -> "LineLoop"
      [] mode = "LineStrip" -> "LineStrip"
      [] mode = "Triangles" -> "Triangles"
      [] mode = "TriangleStrip" -> "TriangleStrip"
      [] mode = "TriangleFan" -> "TriangleFan"

\* gltf.rs:102-127.  The filters are mapped variant by variant.
convert_sampler(sampler) ==
    [mag_filter |-> sampler.mag_filter,
     min_filter |-> sampler.min_filter,
     wrap_s |-> convert_wrapping_mode(sampler.wrap_s),
     wrap_t |-> convert_wrapping_mode(sampler.wrap_t),
     name |-> sampler.name]

\* gltf.rs:45-100.
GltfLoadMaterialOf(model_dir, material, buffer_data) ==
    LET diffuse_texture ==
            IF IsSome(material.base_color_texture)
            THEN LET texture == Unwrap(material.base_color_texture)
                     src == texture.source
                     image ==
                        IF src.kind = "View"
                        THEN [kind |-> "Memory",
                              data |-> SubSeq(buffer_data[src.buffer + 1], src.offset + 1,
                                              src.offset + src.length),
                              mime_type |-> Some(src.mime_type)]
                        ELSE [kind |-> "Path", path |-> Join(model_dir, src.uri),
                              mime_type |-> src.mime_type]
                 IN Some([image |-> image, sampler |-> convert_sampler(texture.sampler),
                          name |-> texture.name])
            ELSE None
    IN [diffuse_texture |-> diffuse_texture,
        alpha_mode |-> convert_alpha_mode(material.alpha_mode),
        double_sided |-> material.double_sided,
        name |-> material.name,
        base_color |-> Some(material.base_color_factor),
        alpha_cutoff |-> material.alpha_cutoff]

\* gltf.rs:215-231: `vertices[index].field = Some(value)` for each element
\* of the attribute; the slice index is in range for every element.
AttributeFits(verts, attribute) ==
    attribute = None \/ Len(Unwrap(attribute)) <= Len(verts)

GltfReadIndices_Widen(indices) ==
    IF indices = None THEN None
    ELSE Some([width |-> "U32", values |-> Unwrap(indices).values])

\* gltf.rs:233-237: the match on ReadIndices, one arm per width.
GltfReadIndices(indices) ==
    IF indices = None THEN None
    ELSE LET indcies == Unwrap(indices) IN
         CASE indcies.width = "U8" -> Some([width |-> "U8", values |-> indcies.values])
           [] indcies.width = "U16" -> Some([width |-> "U16", values |-> indcies.values])
           [] indcies.width = "U32" -> Some([width |-> "U32", values |-> indcies.values])

GltfLoadPrimitiveOf_ZeroFill(primitive) ==
    LET positions == Unwrap(primitive.positions)
        attr(a, i, dim) == IF IsSome(a) /\ i <= Len(Unwrap(a)) THEN Some(Unwrap(a)[i])
                           ELSE Some([c \in 1..dim |-> 0])
        verts == [i \in 1..Len(positions) |->
                    [position |-> positions[i],
                     color |-> attr(primitive.colors, i, 4),
                     tex_coord |-> attr(primitive.tex_coords, i, 2),
                     normal |-> attr(primitive.normals, i, 3)]]
    IN [vertices |-> verts, indices |-> GltfReadIndices(primitive.indices)]

\* gltf.rs:198-240.  The result when no unwrap or slice index panics.
GltfLoadPrimitiveOf(primitive) ==
    LET positions == Unwrap(primitive.positions)
        attr(a, i) == IF IsSome(a) /\ i <= Len(Unwrap(a)) THEN Some(Unwrap(a)[i]) ELSE None
        verts == [i \in 1..Len(positions) |->
                    [position |-> positions[i],
                     color |-> attr(primitive.colors, i),
                     tex_coord |-> attr(primitive.tex_coords, i),
                     normal |-> attr(primitive.normals, i)]]
    IN [vertices |-> verts, indices |-> GltfReadIndices(primitive.indices)]

GltfPrimitivePanics(primitive) ==
    \/ primitive.positions = None
    \/ LET verts == Unwrap(primitive.positions) IN
          \/ ~AttributeFits(verts, primitive.normals)
          \/ ~AttributeFits(verts, primitive.colors)
          \/ ~AttributeFits(verts, primitive.tex_coords)

\* gltf.rs:178-196.
GltfLoadMeshOf(mesh) ==
    [i \in 1..Len(mesh.primitives) |->
        LET primitive == mesh.primitives[i]
            loaded == GltfLoadPrimitiveOf(primitive)
        IN [vertices |-> loaded.vertices,
            indices |-> loaded.indices,
            mode |-> convert_mode(primitive.mode),
            material_index |-> primitive.material,
            name |-> mesh.name]]

\* gltf.rs:11-14: File::open and Gltf::from_reader, both mapped to errors.
GltfOpen ==
    /\ pc = "gltf"
    /\ \/ /\ ~path.openable
          /\ Finish(Err("OpenFile"))
          /\ UNCHANGED source
       \/ /\ path.openable
          /\ Finish(Err("ModelParsing"))
          /\ UNCHANGED source
       \/ /\ path.openable
          /\ \E file \in GltfFiles : source' = file
          /\ pc' = "gltf_buffers"
          /\ UNCHANGED result
    /\ UNCHANGED <<entry, path, format, invoked, vertex_list, face_list, materials,
                   meshes, vertices, iter>>

\* gltf.rs:18-22: import_buffers(..).expect(..).
GltfImportBuffers ==
    /\ pc = "gltf_buffers"
    /\ \/ /\ Finish(Abort("gltf: import_buffers expect"))
          /\ UNCHANGED <<materials, iter>>
       \/ /\ pc' = "gltf_materials"
          /\ materials' = <<>>
          /\ iter' = 0
          /\ UNCHANGED result
    /\ UNCHANGED <<entry, path, format, invoked, source, vertex_list, face_list,
                   meshes, vertices>>

GltfLoadMaterial_Prepend ==
    /\ pc = "gltf_materials"
    /\ iter < Len(source.materials)
    /\ materials' = <<GltfLoadMaterialOf(path.parent, source.materials[iter + 1],
                                         source.buffers)>> \o materials
    /\ iter' = iter + 1
    /\ UNCHANGED <<pc, entry, path, format, invoked, source, vertex_list, face_list,
                   meshes, vertices, result>>

\* gltf.rs:23-31, one iteration of the material loop.
GltfLoadMaterial ==
    /\ pc = "gltf_materials"
    /\ iter < Len(source.materials)
    /\ materials' = Append(materials,
                           GltfLoadMaterialOf(path.parent, source.materials[iter + 1],
                                              source.buffers))
    /\ iter' = iter + 1
    /\ UNCHANGED <<pc, entry, path, format, invoked, source, vertex_list, face_list,
                   meshes, vertices, result>>

\* gltf.rs:33.
GltfMaterialsLoaded ==
    /\ pc = "gltf_materials"
    /\ iter = Len(source.materials)
    /\ pc' = "gltf_meshes"
    /\ meshes' = <<>>
    /\ iter' = 0
    /\ UNCHANGED <<entry, path, format, invoked, source, vertex_list, face_list,
                   materials, vertices, result>>

\* gltf.rs:34-36, one iteration of the mesh loop.
GltfLoadMesh ==
    /\ pc = "gltf_meshes"
    /\ iter < Len(source.meshes)
    /\ LET mesh == source.meshes[iter + 1] IN
         IF \E i \in 1..Len(mesh.primitives) : GltfPrimitivePanics(mesh.primitives[i])
         THEN /\ Finish(Abort("gltf: load_primitive"))
              /\ UNCHANGED <<meshes, iter>>
         ELSE /\ meshes' = meshes \o GltfLoadMeshOf(mesh)
              /\ iter' = iter + 1
              /\ UNCHANGED <<pc, result>>
    /\ UNCHANGED <<entry, path, format, invoked, source, vertex_list, face_list,
                   materials, vertices>>

\* gltf.rs:38-42.
GltfReturn ==
    /\ pc = "gltf_meshes"
    /\ iter = Len(source.meshes)
    /\ Finish(Ok([meshes |-> meshes, materials |-> materials, format |-> "GLTF"]))
    /\ UNCHANGED <<entry, path, format, invoked, source, vertex_list, face_list,
                   materials, meshes, vertices, iter>>

----------------------------------------------------------------------------
(* obj.rs *)

\* A flat f32 array of len entries, distinct over arrays and entries.
Flat(base, len) == [j \in 1..len |-> base + j]

\* The material i of the companion material file (material_id i - 1).
ObjSourceMaterial(i) ==
    [name |-> <<"material", i>>,
     diffuse |-> IF i % 2 = 1 THEN Some(Element(500, i, 3)) ELSE None,
     diffuse_texture |-> IF i % 3 = 1 THEN Some(<<"texture", i>>) ELSE None,
     dissolve |-> IF i % 3 = 2 THEN None ELSE Some(600 + i)]

\* A tobj::Mesh of n positions, with nn normals, nt texture coordinates and
\* nc vertex colors (0: the array is empty).
ObjMesh(n, nn, nt, nc, indices, material_id) ==
    [positions |-> Flat(100, 3 * n),
     normals |-> Flat(200, 3 * nn),
     texcoords |-> Flat(400, 2 * nt),
     vertex_color |-> Flat(300, 3 * nc),
     indices |-> indices,
     material_id |-> material_id]

\* The meshes drawn for a file of nm materials.  For n positions: no
\* attribute and no index; every attribute with n elements and an index
\* list within the vertices; one attribute with n - 1, n or n + 1 elements;
\* a reference to each material.
ObjMeshes(nm) ==
    UNION {
        {ObjMesh(n, 0, 0, 0, <<>>, None),
         ObjMesh(n, n, n, n, [j \in 1..n |-> n - j], None)}
        \cup {ObjMesh(n, k, 0, 0, <<>>, None) : k \in {n - 1, n, n + 1}}
        \cup {ObjMesh(n, 0, k, 0, <<>>, None) : k \in {n - 1, n, n + 1}}
        \cup {ObjMesh(n, 0, 0, k, <<>>, None) : k \in {n - 1, n, n + 1}}
        \cup {ObjMesh(n, 0, n, 0, [j \in 1..n |-> j - 1], Some(i)) : i \in 0..(nm - 1)}
        : n \in 1..MaxVertices}
    \cup {ObjMesh(0, 0, 0, 0, <<>>, None)}

ObjModels(nm) == {[name |-> "model", mesh |-> m] : m \in ObjMeshes(nm)}

\* What tobj::load_obj yields for a file that parses: the models, and the
\* materials or the error of the companion material file.
ObjFiles ==
    UNION {[models : SeqsUpTo(ObjModels(nm), MaxMeshes),
            materials : {Ok([i \in 1..nm |-> ObjSourceMaterial(i)])}] :
              nm \in 0..MaxMaterials}
    \cup [models : SeqsUpTo(ObjModels(0), 1), materials : {Err("mtl")}]

ObjLoadMaterialOf_BareName(material, model_dir) ==
    LET base_color ==
            IF IsSome(material.diffuse)
            THEN LET d == Unwrap(material.diffuse) IN Some(<<d[1], d[2], d[3], 1>>)
            ELSE None
        diffuse_texture ==
            IF IsSome(material.diffuse_texture)
            THEN LET texture == Unwrap(material.diffuse_texture) IN
                 Some([image |-> [kind |-> "Path", path |-> texture, mime_type |-> None],
                       sampler |-> [mag_filter |-> None, min_filter |-> None,
                                    wrap_s |-> "Repeat", wrap_t |-> "Repeat",
                                    name |-> None],
                       name |-> Some(texture)])
            ELSE None
    IN [double_sided |-> FALSE,
        alpha_cutoff |-> material.dissolve,
        alpha_mode |-> "Opaque",
        diffuse_texture |-> diffuse_texture,
        base_color |-> base_color,
        name |-> Some(material.name)]

\* obj.rs:59-82.
ObjLoadMaterialOf(material, model_dir) ==
    LET base_color ==
            IF IsSome(material.diffuse)
            THEN LET d == Unwrap(material.diffuse) IN Some(<<d[1], d[2], d[3], 1>>)
            ELSE None
        diffuse_texture ==
            IF IsSome(material.diffuse_texture)
            THEN LET texture == Unwrap(material.diffuse_texture) IN
                 Some([image |-> [kind |-> "Path", path |-> Join(model_dir, texture),
                                  mime_type |-> None],
                       sampler |-> [mag_filter |-> None, min_filter |-> None,
                                    wrap_s |-> "Repeat", wrap_t |-> "Repeat",
                                    name |-> None],
                       name |-> Some(texture)])
            ELSE None
    IN [double_sided |-> FALSE,
        alpha_cutoff |-> material.dissolve,
        alpha_mode |-> "Opaque",
        diffuse_texture |-> diffuse_texture,
        base_color |-> base_color,
        name |-> Some(material.name)]

\* obj.rs:84-124.  i is the 0-based vertex number; a[k + 1] is a[k] of the
\* source.
ObjLoadMeshOf(mesh) ==
    [v \in 1..(Len(mesh.positions) \div 3) |->
        LET i == v - 1 IN
        [position |-> <<mesh.positions[i * 3 + 1], mesh.positions[i * 3 + 2],
                        mesh.positions[i * 3 + 3]>>,
         tex_coord |-> IF mesh.texcoords = <<>> THEN None
                       ELSE Some(<<mesh.texcoords[i * 2 + 1], mesh.texcoords[i * 2 + 2]>>),
         color |-> IF mesh.vertex_color = <<>> THEN None
                   ELSE Some(<<mesh.vertex_color[i * 3 + 1], mesh.vertex_color[i * 3 + 2],
                               mesh.vertex_color[i * 3 + 3], 0>>),
         normal |-> IF mesh.normals = <<>> THEN None
                    ELSE Some(<<mesh.normals[i * 3 + 1], mesh.normals[i * 3 + 2],
                                mesh.normals[i * 3 + 3]>>)]]

\* Some slice index of load_mesh is out of range: a non-empty attribute
\* array ends before the last vertex's entries.
ObjMeshPanics(mesh) ==
    LET count == Len(mesh.positions) \div 3 IN
    \/ mesh.texcoords # <<>> /\ Len(mesh.texcoords) < 2 * count
    \/ mesh.vertex_color # <<>> /\ Len(mesh.vertex_color) < 3 * count
    \/ mesh.normals # <<>> /\ Len(mesh.normals) < 3 * count

ObjLoadObj_OneKind ==
    /\ pc = "obj"
    /\ \/ /\ Finish(Err("ModelParsing"))
          /\ UNCHANGED <<source, materials, iter>>
       \/ /\ path.openable
          /\ \E file \in ObjFiles :
                /\ source' = file
                /\ IF file.materials.kind = "Err"
                   THEN /\ Finish(Err("ModelParsing"))
                        /\ UNCHANGED <<materials, iter>>
                   ELSE /\ pc' = "obj_materials"
                        /\ materials' = <<>>
                        /\ iter' = 0
                        /\ UNCHANGED result
    /\ UNCHANGED <<entry, path, format, invoked, vertex_list, face_list, meshes, vertices>>

\* obj.rs:6-24: tobj::load_obj, which also opens the file, and the match on
\* the material result.
ObjLoadObj ==
    /\ pc = "obj"
    /\ \/ /\ Finish(Err("ModelParsing"))
          /\ UNCHANGED <<source, materials, iter>>
       \/ /\ path.openable
          /\ \E file \in ObjFiles :
                /\ source' = file
                /\ IF file.materials.kind = "Err"
                   THEN /\ Finish(Err("MaterialLoad"))
                        /\ UNCHANGED <<materials, iter>>
                   ELSE /\ pc' = "obj_materials"
                        /\ materials' = <<>>
                        /\ iter' = 0
                        /\ UNCHANGED result
    /\ UNCHANGED <<entry, path, format, invoked, vertex_list, face_list, meshes, vertices>>

\* obj.rs:25-28, one iteration of the material loop.
ObjLoadMaterial ==
    /\ pc = "obj_materials"
    /\ iter < Len(source.materials.model)
    /\ materials' = Append(materials,
                           ObjLoadMaterialOf(source.materials.model[iter + 1], path.parent))
    /\ iter' = iter + 1
    /\ UNCHANGED <<pc, entry, path, format, invoked, source, vertex_list, face_list,
                   meshes, vertices, result>>

\* obj.rs:30-32.
ObjMaterialsLoaded ==
    /\ pc = "obj_materials"
    /\ iter = Len(source.materials.model)
    /\ pc' = "obj_meshes"
    /\ meshes' = <<>>
    /\ iter' = 0
    /\ UNCHANGED <<entry, path, format, invoked, source, vertex_list, face_list,
                   materials, vertices, result>>

ObjMeshOf_OneBased(model) ==
    [vertices |-> ObjLoadMeshOf(model.mesh),
     indices |-> IF model.mesh.indices = <<>> THEN None
                 ELSE Some([width |-> "U32", values |-> model.mesh.indices]),
     mode |-> "TriangleFan",
     name |-> Some(model.name),
     material_index |-> IF model.mesh.material_id = None THEN None
                        ELSE Some(Unwrap(model.mesh.material_id) + 1)]

\* obj.rs:37-49.
ObjMeshOf(model) ==
    [vertices |-> ObjLoadMeshOf(model.mesh),
     indices |-> IF model.mesh.indices = <<>> THEN None
                 ELSE Some([width |-> "U32", values |-> model.mesh.indices]),
     mode |-> "TriangleFan",
     name |-> Some(model.name),
     material_index |-> model.mesh.material_id]

\* obj.rs:33-50, one iteration of the model loop.
ObjLoadMesh ==
    /\ pc = "obj_meshes"
    /\ iter < Len(source.models)
    /\ LET model == source.models[iter + 1] IN
         IF ObjMeshPanics(model.mesh)
         THEN /\ Finish(Abort("obj: load_mesh index out of bounds"))
              /\ UNCHANGED <<meshes, iter>>
         ELSE /\ meshes' = Append(meshes, ObjMeshOf(model))
              /\ iter' = iter + 1
              /\ UNCHANGED <<pc, result>>
    /\ UNCHANGED <<entry, path, format, invoked, source, vertex_list, face_list,
                   materials, vertices>>

\* obj.rs:52-56.
ObjReturn ==
    /\ pc = "obj_meshes"
    /\ iter = Len(source.models)
    /\ Finish(Ok([meshes |-> meshes, materials |-> materials, format |-> "OBJ"]))
    /\ UNCHANGED <<entry, path, format, invoked, source, vertex_list, face_list,
                   materials, meshes, vertices, iter>>

----------------------------------------------------------------------------
(* Claims *)

\* The extensions the spec registers, and the tag of each.
Registered == {"obj", "gltf", "glb", "stl", "ply"}
TagOf(extension) ==
    CASE extension = "obj" -> "OBJ"
      [] extension \in {"gltf", "glb"} -> "GLTF"
      [] extension = "stl" -> "STL"
      [] extension = "ply" -> "PLY"

\* C1: a load of a path that does not exist, by Model3D::load or by
\* Model3D::from_format with any tag, ends with the error FileNotExists and
\* has entered no adapter.
C1_MissingFileLaw ==
    (pc = "done" /\ ~path.exists) =>
        /\ result = Err("FileNotExists")
        /\ invoked = <<>>

\* C2: Model3D::load of an existing path whose extension is obj, gltf, glb,
\* stl or ply selects the tag OBJ, GLTF, GLTF, STL or PLY and enters that
\* tag's adapter, once, with the same path.
C2_RegisteredExtensions ==
    (pc # "idle" /\ entry = "load" /\ path.exists /\ IsSome(path.extension)
        /\ Unwrap(path.extension) \in Registered) =>
        /\ format = TagOf(Unwrap(path.extension))
        /\ invoked = <<[adapter |-> AdapterOf(format), path |-> path]>>

\* C3: Model3D::load of an existing path whose extension is absent or not
\* registered ends with the error UnknowFormat and has entered no adapter.
C3_UnknownExtension ==
    (pc # "idle" /\ entry = "load" /\ path.exists
        /\ (IsSome(path.extension) => Unwrap(path.extension) \notin Registered)) =>
        /\ pc = "done"
        /\ result = Err("UnknowFormat")
        /\ invoked = <<>>

RECURSIVE PrimitiveCount(_)
PrimitiveCount(ms) ==
    IF ms = <<>> THEN 0 ELSE Len(Head(ms).primitives) + PrimitiveCount(Tail(ms))

\* The returned Model holds every material and every mesh of the source.
FullyPopulated ==
    LET m == result.model IN
    CASE format = "GLTF" -> /\ Len(m.materials) = Len(source.materials)
                            /\ Len(m.meshes) = PrimitiveCount(source.meshes)
      [] format = "OBJ" -> /\ Len(m.materials) = Len(source.materials.model)
                           /\ Len(m.meshes) = Len(source.models)
      [] format = "PLY" -> /\ Len(m.meshes) = 1
                           /\ Len(m.meshes[1].vertices) = 3 * Len(source.faces)
      [] format = "STL" -> /\ Len(m.meshes) = 1
                           /\ Len(m.meshes[1].vertices) = 3 * Len(source.triangles)

\* C4: a call that entered an adapter ends with a fully populated Model or
\* with one of the five typed errors, never with an abort.
C4_TypedOutcome ==
    (pc = "done" /\ invoked # <<>>) =>
        \/ result.kind = "Ok" /\ FullyPopulated
        \/ result.kind = "Err" /\ result.error \in ModelError

\* Some present attribute of the mesh has another element count than the
\* positions.
GltfMismatch(mesh) ==
    \E i \in 1..Len(mesh.primitives) :
        LET p == mesh.primitives[i] IN
        /\ IsSome(p.positions)
        /\ \E a \in {p.normals, p.colors, p.tex_coords} :
              IsSome(a) /\ Len(Unwrap(a)) # Len(Unwrap(p.positions))

ObjMismatch(mesh) ==
    LET count == Len(mesh.positions) \div 3 IN
    \/ mesh.normals # <<>> /\ Len(mesh.normals) # 3 * count
    \/ mesh.vertex_color # <<>> /\ Len(mesh.vertex_color) # 3 * count
    \/ mesh.texcoords # <<>> /\ Len(mesh.texcoords) # 2 * count

\* C5: when the gltf or obj mesh loop comes to a mesh with a present
\* attribute whose element count differs from the position count, the step
\* ends the call with the error ModelParsing.
C5_AttributeCountMismatch ==
    [][(\/ /\ pc = "gltf_meshes"
           /\ iter < Len(source.meshes)
           /\ GltfMismatch(source.meshes[iter + 1])
        \/ /\ pc = "obj_meshes"
           /\ iter < Len(source.models)
           /\ ObjMismatch(source.models[iter + 1].mesh))
       => (pc' = "done" /\ result' = Err("ModelParsing"))]_vars

Returned == pc = "done" /\ result.kind = "Ok"

\* C6: in a returned Model every present material_index is less than the
\* number of materials of that Model; a Model of the ply or stl adapter has
\* no materials and no material_index.
C6_MaterialIndexIntegrity ==
    Returned =>
        LET m == result.model IN
        /\ \A i \in 1..Len(m.meshes) :
              IsSome(m.meshes[i].material_index) =>
                  Unwrap(m.meshes[i].material_index) < Len(m.materials)
        /\ format \in {"PLY", "STL"} =>
              /\ m.materials = <<>>
              /\ \A i \in 1..Len(m.meshes) : m.meshes[i].material_index = None

\* A returned obj Model whose mesh names the last of two materials.
C6_Witness ==
    /\ Returned
    /\ format = "OBJ"
    /\ Len(result.model.materials) = 2
    /\ \E i \in 1..Len(result.model.meshes) :
          result.model.meshes[i].material_index = Some(1)

\* C7: in a returned Model every value of a present index buffer is less
\* than the number of vertices of its mesh.
C7_IndicesInBounds ==
    Returned =>
        \A i \in 1..Len(result.model.meshes) :
            LET mesh == result.model.meshes[i] IN
            IsSome(mesh.indices) =>
                \A j \in 1..Len(Unwrap(mesh.indices).values) :
                    Unwrap(mesh.indices).values[j] < Len(mesh.vertices)

\* The value a payload row carries for the property named key.
ColumnValue(row, key) == row[CHOOSE c \in 1..Len(row) : row[c].key = key].value
RowSupplies(row, keys) == \E c \in 1..Len(row) : row[c].key \in keys

PlyLoaded == pc = "done" /\ format = "PLY" /\ result.kind = "Ok"

\* The file has vertex and face elements only, its payloads read, and every
\* face has three indices within the vertex list.
PlyWellFormed(file) ==
    /\ file.broken = "none"
    /\ \A e \in 1..Len(file.elements) : file.elements[e] \in {"vertex", "face"}
    /\ \A k \in 1..Len(file.faces) :
          /\ Len(file.faces[k].vertex_index) >= 3
          /\ \A j \in 1..3 : file.faces[k].vertex_index[j] < Len(file.rows)

C9_PlyPresencePerComponent ==
    PlyLoaded =>
        \A k \in 1..Len(source.faces) : \A j \in 1..3 :
            LET row == source.rows[source.faces[k].vertex_index[j] + 1]
                v == result.model.meshes[1].vertices[3 * (k - 1) + j]
            IN /\ IsSome(v.normal) =>
                    /\ RowSupplies(row, {"nx"})
                    /\ RowSupplies(row, {"ny"})
                    /\ RowSupplies(row, {"nz"})
                    /\ v.normal = Some(<<ColumnValue(row, "nx"), ColumnValue(row, "ny"),
                                         ColumnValue(row, "nz")>>)
               /\ IsSome(v.tex_coord) =>
                    /\ RowSupplies(row, {"u", "s", "tx", "texture_u"})
                    /\ RowSupplies(row, {"v", "t", "ty", "texture_v"})

\* C10: an stl load of T triangle records returns one unnamed mesh without
\* index buffer or material index, no materials, and 3*T vertices: vertex
\* 3k+j carries position j of triangle k, that triangle's normal, and no
\* texture coordinate.
C10_StlTriangleSoup ==
    (pc = "done" /\ format = "STL" /\ source # <<>>) =>
        LET tris == source.triangles
            m == result.model
        IN /\ result.kind = "Ok"
           /\ Len(m.meshes) = 1
           /\ m.materials = <<>>
           /\ m.meshes[1].name = None
           /\ m.meshes[1].indices = None
           /\ m.meshes[1].material_index = None
           /\ Len(m.meshes[1].vertices) = 3 * Len(tris)
           /\ \A k \in 1..Len(tris) : \A j \in 1..3 :
                 LET v == m.meshes[1].vertices[3 * (k - 1) + j] IN
                 /\ v.position = tris[k].vertices[j]
                 /\ v.normal = Some(tris[k].normal)
                 /\ v.tex_coord = None

\* Two triangles with different normals that share a position.
C10_Witness ==
    /\ pc = "done" /\ format = "STL" /\ result.kind = "Ok"
    /\ Len(source.triangles) = 2
    /\ source.triangles[1].normal # source.triangles[2].normal
    /\ source.triangles[1].vertices[1] # source.triangles[1].vertices[2]
    /\ source.triangles[2].vertices[3] = source.triangles[1].vertices[1]
    /\ Len(result.model.meshes[1].vertices) = 6

\* C11: an obj load whose geometry file parses and whose material file does
\* not ends with the error MaterialLoad; an obj load whose geometry file
\* does not parse ends with the error ModelParsing; neither returns a Model.
C11_MaterialFailureIsolation ==
    (pc = "done" /\ format = "OBJ") =>
        /\ (source # <<>> /\ source.materials.kind = "Err") =>
              result = Err("MaterialLoad")
        /\ source = <<>> => result = Err("ModelParsing")

\* The geometry parsed into one model and the material file failed.
C11_Witness ==
    /\ pc = "done" /\ format = "OBJ"
    /\ source # <<>>
    /\ source.materials.kind = "Err"
    /\ Len(source.models) = 1
    /\ result = Err("MaterialLoad")

RECURSIVE Primitives(_)
\* The primitives of a document, mesh after mesh.
Primitives(ms) ==
    IF ms = <<>> THEN <<>> ELSE Head(ms).primitives \o Primitives(Tail(ms))

\* C12: in a Model returned by the gltf adapter, the mesh of a primitive with
\* an index buffer has Indices of the source's width with the source's
\* values in order, and the mesh of a primitive without one has none.
C12_IndexWidthFidelity ==
    (Returned /\ format = "GLTF") =>
        LET ps == Primitives(source.meshes)
            ms == result.model.meshes
        IN /\ Len(ms) = Len(ps)
           /\ \A k \in 1..Len(ps) :
                 IF ps[k].indices = None
                 THEN ms[k].indices = None
                 ELSE /\ IsSome(ms[k].indices)
                      /\ Unwrap(ms[k].indices).width = Unwrap(ps[k].indices).width
                      /\ Unwrap(ms[k].indices).values = Unwrap(ps[k].indices).values

\* A returned primitive with a 16-bit index buffer of two values.
C12_Witness ==
    /\ Returned /\ format = "GLTF"
    /\ \E k \in 1..Len(result.model.meshes) :
          /\ IsSome(result.model.meshes[k].indices)
          /\ Unwrap(result.model.meshes[k].indices).width = "U16"
          /\ Unwrap(result.model.meshes[k].indices).values = <<1, 0>>
          /\ Len(result.model.meshes[k].vertices) = 2

\* Sampler::default(): no filters, both axes Repeat, no name.
DefaultSampler ==
    [mag_filter |-> None, min_filter |-> None, wrap_s |-> "Repeat", wrap_t |-> "Repeat",
     name |-> None]

\* C13: every Material returned by the obj adapter is Opaque and not
\* double-sided; its base_color is [r, g, b, 1] of the source diffuse triple
\* or absent, its alpha_cutoff the source dissolve or absent, and its
\* diffuse texture, when the source names one, a Path image of the geometry
\* file's parent directory joined with that name, with a default sampler.
C13_ObjMaterialConversion ==
    (Returned /\ format = "OBJ") =>
        LET src == source.materials.model
            out == result.model.materials
        IN /\ Len(out) = Len(src)
           /\ \A i \in 1..Len(src) :
                 /\ out[i].alpha_mode = "Opaque"
                 /\ out[i].double_sided = FALSE
                 /\ out[i].base_color =
                       (IF IsSome(src[i].diffuse)
                        THEN Some(<<Unwrap(src[i].diffuse)[1], Unwrap(src[i].diffuse)[2],
                                    Unwrap(src[i].diffuse)[3], 1>>)
                        ELSE None)
                 /\ out[i].alpha_cutoff = src[i].dissolve
                 /\ IF IsSome(src[i].diffuse_texture)
                    THEN /\ IsSome(out[i].diffuse_texture)
                         /\ Unwrap(out[i].diffuse_texture).image.kind = "Path"
                         /\ Unwrap(out[i].diffuse_texture).image.path =
                               Join(path.parent, Unwrap(src[i].diffuse_texture))
                         /\ Unwrap(out[i].diffuse_texture).sampler = DefaultSampler
                    ELSE out[i].diffuse_texture = None

\* Two materials returned: one with diffuse color, texture and dissolve, one
\* with none of them.
C13_Witness ==
    /\ Returned /\ format = "OBJ"
    /\ Len(result.model.materials) = 2
    /\ IsSome(result.model.materials[1].base_color)
    /\ IsSome(result.model.materials[1].diffuse_texture)
    /\ IsSome(result.model.materials[1].alpha_cutoff)
    /\ result.model.materials[2].base_color = None
    /\ result.model.materials[2].diffuse_texture = None
    /\ result.model.materials[2].alpha_cutoff = None

\* The field of every vertex is absent when the gltf attribute is absent,
\* and is element i of the attribute when it has one element per vertex.
GltfAttributeKept(attribute, verts, field(_)) ==
    /\ attribute = None => \A i \in 1..Len(verts) : field(verts[i]) = None
    /\ (IsSome(attribute) /\ Len(Unwrap(attribute)) = Len(verts)) =>
          \A i \in 1..Len(verts) : field(verts[i]) = Some(Unwrap(attribute)[i])

\* The same for a flat obj array read at the given stride; of the output
\* field the first stride components are compared.
ObjAttributeKept(array, stride, verts, field(_)) ==
    /\ array = <<>> => \A i \in 1..Len(verts) : field(verts[i]) = None
    /\ (array # <<>> /\ Len(array) = stride * Len(verts)) =>
          \A i \in 1..Len(verts) :
              /\ IsSome(field(verts[i]))
              /\ \A c \in 1..stride :
                    Unwrap(field(verts[i]))[c] = array[stride * (i - 1) + c]

NormalOf(v) == v.normal
ColorOf(v) == v.color
TexCoordOf(v) == v.tex_coord

\* C14: in a Model returned by the gltf or obj adapter, a normal, color or
\* texture coordinate the source mesh does not carry is absent on every
\* vertex of the mesh, and one it carries with one element per position is
\* present on every vertex i with the source element i.
C14_AttributeOptionality ==
    /\ (Returned /\ format = "GLTF") =>
          LET ps == Primitives(source.meshes)
              ms == result.model.meshes
          IN /\ Len(ms) = Len(ps)
             /\ \A k \in 1..Len(ps) :
                   /\ Len(ms[k].vertices) = Len(Unwrap(ps[k].positions))
                   /\ \A i \in 1..Len(ms[k].vertices) :
                         ms[k].vertices[i].position = Unwrap(ps[k].positions)[i]
                   /\ GltfAttributeKept(ps[k].normals, ms[k].vertices, NormalOf)
                   /\ GltfAttributeKept(ps[k].colors, ms[k].vertices, ColorOf)
                   /\ GltfAttributeKept(ps[k].tex_coords, ms[k].vertices, TexCoordOf)
    /\ (Returned /\ format = "OBJ") =>
          LET ms == result.model.meshes IN
          /\ Len(ms) = Len(source.models)
          /\ \A k \in 1..Len(ms) :
                LET mesh == source.models[k].mesh IN
                /\ Len(ms[k].vertices) = Len(mesh.positions) \div 3
                /\ \A i \in 1..Len(ms[k].vertices) : \A c \in 1..3 :
                      ms[k].vertices[i].position[c] = mesh.positions[3 * (i - 1) + c]
                /\ ObjAttributeKept(mesh.normals, 3, ms[k].vertices, NormalOf)
                /\ ObjAttributeKept(mesh.vertex_color, 3, ms[k].vertices, ColorOf)
                /\ ObjAttributeKept(mesh.texcoords, 2, ms[k].vertices, TexCoordOf)

\* A returned gltf mesh of two vertices that carry normal, color and texture
\* coordinate, next to nothing else.
C14_Witness ==
    /\ Returned /\ format = "GLTF"
    /\ Len(source.meshes) = 1
    /\ Len(source.meshes[1].primitives) = 1
    /\ LET p == source.meshes[1].primitives[1] IN
          /\ IsSome(p.normals) /\ Len(Unwrap(p.normals)) = 2
          /\ IsSome(p.colors) /\ Len(Unwrap(p.colors)) = 2
          /\ IsSome(p.tex_coords) /\ Len(Unwrap(p.tex_coords)) = 2
    /\ Len(result.model.meshes[1].vertices) = 2
    /\ IsSome(result.model.meshes[1].vertices[2].normal)

\* C15: every mesh returned by the ply adapter and by the stl adapter has no
\* index buffer and the render topology Triangles.
C15_TriangleListTopology ==
    (Returned /\ format \in {"PLY", "STL"}) =>
        \A k \in 1..Len(result.model.meshes) :
            LET mesh == result.model.meshes[k] IN
            /\ mesh.indices = None
            /\ "mode" \in DOMAIN mesh
            /\ mesh.mode = "Triangles"

\* The materials list is the conversion of the source materials, in source
\* order.
MaterialsBuilt ==
    CASE format = "GLTF" ->
            materials = [i \in 1..Len(source.materials) |->
                            GltfLoadMaterialOf(path.parent, source.materials[i],
                                               source.buffers)]
      [] format = "OBJ" ->
            materials = [i \in 1..Len(source.materials.model) |->
                            ObjLoadMaterialOf(source.materials.model[i], path.parent)]

InMeshLoop == pc \in {"gltf_meshes", "obj_meshes"}

\* C16: in a gltf or obj load the materials list is complete, in source
\* order, when the mesh loop starts and whenever a mesh exists; no step of
\* the mesh loop changes it, and the returned Model carries it.
C16_MaterialsBeforeMeshes ==
    [][/\ (format' \in {"GLTF", "OBJ"} /\ (InMeshLoop' \/ meshes' # <<>>)) =>
             MaterialsBuilt'
       /\ InMeshLoop => materials' = materials
       /\ (InMeshLoop /\ pc' = "done" /\ result'.kind = "Ok") =>
             result'.model.materials = materials]_vars

\* The gltf mesh loop has built a mesh that names the second of two
\* materials and has not returned yet.
C16_Witness ==
    /\ pc = "gltf_meshes"
    /\ Len(materials) = 2
    /\ materials[1] # materials[2]
    /\ meshes # <<>>
    /\ meshes[1].material_index = Some(1)

\* C17: the second and the third vertex emitted for a ply face have no
\* normal when their own source vertex lacks one of nx, ny, nz, and no
\* texture coordinate when it lacks one of the two axes.
C17_PlyOwnRecordOnly ==
    PlyLoaded =>
        \A k \in 1..Len(source.faces) : \A j \in 2..3 :
            LET row == source.rows[source.faces[k].vertex_index[j] + 1]
                v == result.model.meshes[1].vertices[3 * (k - 1) + j]
            IN /\ ~(/\ RowSupplies(row, {"nx"})
                    /\ RowSupplies(row, {"ny"})
                    /\ RowSupplies(row, {"nz"})) => v.normal = None
               /\ ~(/\ RowSupplies(row, {"u", "s", "tx", "texture_u"})
                    /\ RowSupplies(row, {"v", "t", "ty", "texture_v"})) => v.tex_coord = None

----------------------------------------------------------------------------

Init ==
    /\ pc = "idle"
    /\ entry = ""
    /\ path = NoPath
    /\ format = ""
    /\ invoked = <<>>
    /\ source = <<>>
    /\ vertex_list = <<>>
    /\ face_list = <<>>
    /\ materials = <<>>
    /\ meshes = <<>>
    /\ vertices = <<>>
    /\ iter = 0
    /\ result = Pending

Next ==
    \/ \E p \in Paths : Load(p)
    \/ \E p \in Paths, f \in ModelFormat : FromFormat(p, f)
    \/ StlRead
    \/ StlFace
    \/ StlReturn
    \/ PlyOpen
    \/ PlyReadElement
    \/ PlyElementsRead
    \/ PlyFace
    \/ PlyReturn
    \/ GltfOpen
    \/ GltfImportBuffers
    \/ GltfLoadMaterial
    \/ GltfMaterialsLoaded
    \/ GltfLoadMesh
    \/ GltfReturn
    \/ ObjLoadObj
    \/ ObjLoadMaterial
    \/ ObjMaterialsLoaded
    \/ ObjLoadMesh
    \/ ObjReturn

Spec == Init /\ [][Next]_vars

====
